---- MODULE Spec2Model ----
(***************************************************************************)
(* Playback scheduler of the GdmLiveAudio component (index.tsx).           *)
(*                                                                         *)
(* The component keeps a playback cursor `nextStartTime` and a set         *)
(* `sources` of in-flight AudioBufferSourceNodes.  Server messages are     *)
(* handled by the async callback `onmessage`; a message that carries audio *)
(* suspends at `await decodeAudioData(...)`, so the handler is two steps:  *)
(* the part up to the await and the continuation.  Time is the output      *)
(* AudioContext clock, counted in integer ticks; a buffer's duration is a  *)
(* number of ticks.                                                        *)
(***************************************************************************)
EXTENDS Integers, Sequences, FiniteSets, TLC

\* ------------------------------------------------------------------ bounds
MaxClock == 2      \* the output clock runs from 0 to MaxClock
MaxMsgs  == 3      \* number of server messages delivered
MaxDur   == 2      \* longest decoded buffer, in clock ticks
MaxStarts == 2     \* number of startRecording calls (getUserMedia requests)
MaxBlocks == 2     \* number of onaudioprocess callbacks

VARIABLES
  clock,              \* outputAudioContext.currentTime
  nextStartTime,      \* this.nextStartTime
  sources,            \* this.sources : set of node ids
  nodes,              \* every AudioBufferSourceNode created so far, in the
                      \* order of their start() calls; node id = index
  pending,            \* onmessage invocations suspended at the await
  currentInputText,   \* this.currentInputText   (sequence of characters)
  currentOutputText,  \* this.currentOutputText
  transcriptionLog,   \* this.transcriptionLog
  nArr,               \* history: number of messages delivered so far
  epoch,              \* history: number of times the interrupted branch ran
  cursorStamp,        \* history: value of epoch when nextStartTime was last written
  bumps,              \* history: number of max() steps that raised nextStartTime
  lastOp,             \* history: the step taken last
  isRecording,        \* this.isRecording
  status,             \* this.status
  error,              \* this.error
  selectedLanguage,   \* this.selectedLanguage
  sessionPromise,     \* this.sessionPromise: 0 when undefined or null, else
                      \* the index in `sessions` of the session it resolves to
  mediaStream,        \* this.mediaStream: 0 when undefined or null, else the
                      \* index in `chains` of the stream
  sourceNode,         \* this.sourceNode, likewise
  scriptProcessorNode,\* this.scriptProcessorNode, likewise
  sessions,           \* every session client.live.connect was asked for: its
                      \* connection state and the callbacks queued on its promise
  chains,             \* every getUserMedia request: its outcome, the stream's
                      \* tracks and the script processor built on the stream
  sent,               \* history: the sendRealtimeInput calls, in call order
  nBlocks,            \* history: number of onaudioprocess callbacks so far
  bytes,              \* a Uint8Array handed to encode or decodeAudioData
  samples,            \* a Float32Array handed to createBlob, in quarters
  numChannels,        \* the numChannels argument of decodeAudioData
  encoded,            \* the base64 text encode / createBlob produced
  returned,           \* what the call made last returned
  heap,               \* the Uint8Array objects the analysers allocated:
                      \* object id -> contents
  analysers           \* the Analyser instances: the object their dataArray
                      \* field refers to

\* The fields of the capture chain and the session, and what they refer to.
capVars == <<isRecording, status, error, selectedLanguage, sessionPromise,
             mediaStream, sourceNode, scriptProcessorNode, sessions, chains,
             sent, nBlocks>>

\* The arguments and results of the utility functions, and the analysers.
pureVars == <<bytes, samples, numChannels, encoded, returned, heap, analysers>>

vars == <<clock, nextStartTime, sources, nodes, pending, currentInputText,
          currentOutputText, transcriptionLog, nArr, epoch, cursorStamp,
          bumps, lastOp, isRecording, status, error, selectedLanguage,
          sessionPromise, mediaStream, sourceNode, scriptProcessorNode,
          sessions, chains, sent, nBlocks, bytes, samples, numChannels,
          encoded, returned, heap, analysers>>

\* ---------------------------------------------------------------- messages
\* A LiveServerMessage, reduced to the fields onmessage reads.
\*   audio       "none": no parts[0].inlineData; "ok": a payload that decodes;
\*               "bad": a payload on which decode() throws
\*   d           duration of the decoded buffer (audio = "ok")
\*   inT, outT   <<>> when the transcription field is absent, <<text>> otherwise
\*   parts       number of entries of modelTurn.parts that carry inlineData
Msg(a, d, i, o, tc, intr) ==
  [audio |-> a, d |-> d, inT |-> i, outT |-> o, turnComplete |-> tc,
   interrupted |-> intr, parts |-> IF a = "none" THEN 0 ELSE 1]

\* The messages of the playback path: an audio chunk of each duration, and an
\* interrupt.
SchedMsgs ==
  {Msg("ok", d, <<>>, <<>>, FALSE, FALSE) : d \in 1..MaxDur}
    \cup {Msg("none", 0, <<>>, <<>>, FALSE, TRUE)}

\* ----------------------------------------------------------------- helpers
Max(a, b) == IF a >= b THEN a ELSE b

\* Math.max(this.nextStartTime, this.outputAudioContext.currentTime), with the
\* variants that leave the cursor alone, or assign the clock.
AdvanceCursor_keep(cur, now) == cur
AdvanceCursor_clock(cur, now) == now
AdvanceCursor(cur, now) == Max(cur, now)

\* audioBuffer.duration of the buffer decodeAudioData returns for a payload.
duration(m) == m.d

\* source.start(when): a `when` earlier than currentTime starts playback at
\* once, so the node plays from max(when, clock at the call) for its duration.
ActualStart(n) == Max(n.t, n.at)
ActualEnd(n) == ActualStart(n) + n.d

\* A started node that has not been stopped and has not played to its end.
Audible(i) == ~nodes[i].stopped /\ clock < ActualEnd(nodes[i])

\* The node's playback is over: stop() was called or it played to its end.
Finished(n) == n.stopped \/ clock >= ActualEnd(n)

\* String.prototype.trim on a sequence of characters.
RECURSIVE TrimLeft(_)
TrimLeft(s) ==
  IF s # <<>> /\ Head(s) = " " THEN TrimLeft(Tail(s)) ELSE s

RECURSIVE TrimRight(_)
TrimRight(s) ==
  IF s # <<>> /\ s[Len(s)] = " " THEN TrimRight(SubSeq(s, 1, Len(s) - 1)) ELSE s

trim(s) == TrimRight(TrimLeft(s))

\* ------------------------------------------------------------------- Init
\* State after the constructor: initAudio sets nextStartTime to currentTime
\* of a context that was just created.
InitComponent ==
  /\ clock = 0
  /\ nextStartTime = 0
  /\ sources = {}
  /\ nodes = <<>>
  /\ pending = {}
  /\ currentInputText = <<>>
  /\ currentOutputText = <<>>
  /\ transcriptionLog = <<>>
  /\ nArr = 0
  /\ epoch = 0
  /\ cursorStamp = 0
  /\ bumps = 0
  /\ lastOp = "init"
  /\ isRecording = FALSE
  /\ status = ""
  /\ error = ""
  /\ selectedLanguage = "None"
  /\ sessionPromise = 0
  /\ mediaStream = 0
  /\ sourceNode = 0
  /\ scriptProcessorNode = 0
  /\ sessions = <<>>
  /\ chains = <<>>
  /\ sent = <<>>
  /\ nBlocks = 0

\* No utility call made yet and no analyser built.
InitUtils ==
  /\ bytes = <<>>
  /\ samples = <<>>
  /\ numChannels = 1
  /\ encoded = <<>>
  /\ returned = [fn |-> "none", value |-> <<>>]
  /\ heap = <<>>
  /\ analysers = <<>>

Init == InitComponent /\ InitUtils

\* ---------------------------------------------- the tail of onmessage
\* Transcript part of the handler: append the fragments, then on turnComplete
\* push the trimmed non-empty accumulators to the log and clear them.  The
\* variant pushes but does not clear.
TextAfter_noClear(m) ==
  LET inp == IF m.inT # <<>> THEN currentInputText \o m.inT[1]
             ELSE currentInputText
      out == IF m.outT # <<>> THEN currentOutputText \o m.outT[1]
             ELSE currentOutputText
      log1 == IF trim(inp) # <<>>
              THEN Append(transcriptionLog, [speaker |-> "You", text |-> trim(inp)])
              ELSE transcriptionLog
      log2 == IF trim(out) # <<>>
              THEN Append(log1, [speaker |-> "Orb", text |-> trim(out)])
              ELSE log1
  IN [inp |-> inp, out |-> out,
      log |-> IF m.turnComplete THEN log2 ELSE transcriptionLog]
TextAfter(m) ==
  LET inp == IF m.inT # <<>> THEN currentInputText \o m.inT[1]
             ELSE currentInputText
      out == IF m.outT # <<>> THEN currentOutputText \o m.outT[1]
             ELSE currentOutputText
      fullInput == trim(inp)
      fullOutput == trim(out)
      log1 == IF fullInput # <<>>
              THEN Append(transcriptionLog, [speaker |-> "You", text |-> fullInput])
              ELSE transcriptionLog
      log2 == IF fullOutput # <<>>
              THEN Append(log1, [speaker |-> "Orb", text |-> fullOutput])
              ELSE log1
  IN IF m.turnComplete
       THEN [inp |-> <<>>, out |-> <<>>, log |-> log2]
       ELSE [inp |-> inp, out |-> out, log |-> transcriptionLog]

\* The members of the set the loop `for (const source of this.sources.values())`
\* visits: deleting the visited element does not make a Set iteration skip
\* any, so every member is visited.  The variant misses the newest member.
StopTargets_skip(S) ==
  IF S = {} THEN {} ELSE S \ {CHOOSE x \in S : \A y \in S : x >= y}
StopTargets(S) == S

\* The interrupted branch applied to an in-flight set S and node table ns:
\* stop() and delete every visited source, then nextStartTime = 0.  The
\* variants leave the cursor where it was, or delete without calling stop().
InterruptedBranch_noReset(S, ns) ==
  [sources |-> {},
   nodes   |-> [i \in DOMAIN ns |->
                  IF i \in S THEN [ns[i] EXCEPT !.stopped = TRUE] ELSE ns[i]],
   nextStartTime |-> nextStartTime]
InterruptedBranch_deleteOnly(S, ns) ==
  [sources |-> {}, nodes |-> ns, nextStartTime |-> 0]
InterruptedBranch(S, ns) ==
  [sources |-> S \ StopTargets(S),
   nodes   |-> [i \in DOMAIN ns |->
                  IF i \in StopTargets(S) THEN [ns[i] EXCEPT !.stopped = TRUE]
                  ELSE ns[i]],
   nextStartTime |-> 0]

\* `if (interrupted)`: the branch is taken for every message that has the flag
\* set.  The variant takes it only for a message without audio.
TakesInterruptedBranch_audioless(m) == m.interrupted /\ m.audio = "none"
TakesInterruptedBranch(m) == m.interrupted

\* Transcript and interrupt part of the handler, run on scheduler state
\* (cur, S, ns) reached by the part of the handler before it.
RestOfHandler(m, cur, S, ns) ==
  LET tx == TextAfter(m)
      ib == InterruptedBranch(S, ns)
  IN /\ currentInputText' = tx.inp
     /\ currentOutputText' = tx.out
     /\ transcriptionLog' = tx.log
     /\ IF TakesInterruptedBranch(m)
          THEN /\ sources' = ib.sources
               /\ nodes' = ib.nodes
               /\ nextStartTime' = ib.nextStartTime
               /\ epoch' = epoch + 1
               /\ cursorStamp' = epoch + 1
          ELSE /\ sources' = S
               /\ nodes' = ns
               /\ nextStartTime' = cur
               /\ epoch' = epoch
               /\ cursorStamp' = IF cur = nextStartTime THEN cursorStamp ELSE epoch

\* ----------------------------------------------------------------- actions
\* The output clock advances.
Tick ==
  /\ clock < MaxClock
  /\ clock' = clock + 1
  /\ lastOp' = "tick"
  /\ UNCHANGED capVars
  /\ UNCHANGED pureVars
  /\ UNCHANGED <<nextStartTime, sources, nodes, pending, currentInputText,
                 currentOutputText, transcriptionLog, nArr, epoch,
                 cursorStamp, bumps>>

\* onmessage for a message without audio: the handler has no await and runs
\* to its end in one step.
onmessage(m) ==
  /\ nArr < MaxMsgs
  /\ m.audio = "none"
  /\ RestOfHandler(m, nextStartTime, sources, nodes)
  /\ nArr' = nArr + 1
  /\ lastOp' = "onmessage"
  /\ UNCHANGED capVars
  /\ UNCHANGED pureVars
  /\ UNCHANGED <<clock, pending, bumps>>

\* A throw inside the async handler rejects the promise of that invocation
\* only; the invocations suspended at their await are left alone.  The variant
\* takes them down with it.
PendingAfterThrow_abort(p) == {}
PendingAfterThrow(p) == p

\* onmessage for a message with audio, up to the await: the max() step, then
\* decode(audio.data); a throwing decode rejects the handler, a good payload
\* leaves it suspended at `await decodeAudioData`.
onmessage_await(m) ==
  /\ nArr < MaxMsgs
  /\ m.audio # "none"
  /\ nextStartTime' = AdvanceCursor(nextStartTime, clock)
  /\ cursorStamp' = epoch
  /\ bumps' = IF nextStartTime' > nextStartTime THEN bumps + 1 ELSE bumps
  /\ pending' = IF m.audio = "bad" THEN PendingAfterThrow(pending)
                ELSE pending \cup {[arr |-> nArr + 1, m |-> m,
                                    arrClock |-> clock,
                                    arrCursor |-> nextStartTime,
                                    arrEpoch |-> epoch]}
  /\ nArr' = nArr + 1
  /\ lastOp' = "onmessage_await"
  /\ UNCHANGED capVars
  /\ UNCHANGED pureVars
  /\ UNCHANGED <<clock, sources, nodes, currentInputText, currentOutputText,
                 transcriptionLog, epoch>>

\* this.nextStartTime + audioBuffer.duration, with the variants that forget
\* the duration, or count an empty buffer as one tick.
CursorAfter_noAdvance(cur, d) == cur
CursorAfter_atLeastOne(cur, d) == cur + Max(d, 1)
CursorAfter(cur, d) == cur + d

\* The argument of source.start: the cursor as it is when the continuation
\* runs.  The variants use the cursor brought up to the clock at the call, or
\* the value the handler computed before the await.
StartTimeOf_now(h) ==
  [t |-> Max(nextStartTime, clock), stamp |-> cursorStamp]
StartTimeOf_captured(h) ==
  [t |-> Max(h.arrCursor, h.arrClock), stamp |-> h.arrEpoch]
StartTimeOf(h) == [t |-> nextStartTime, stamp |-> cursorStamp]

\* this.sources.add(source).  The variant starts the source without adding it.
SourcesAfterAdd_forget(S, id) == S
SourcesAfterAdd(S, id) == S \cup {id}

\* Continuation of onmessage after the decode: create the node, register the
\* 'ended' listener, start it at the cursor, advance the cursor by the
\* duration, add the node to `sources`; then the rest of the handler.
onmessage_resume(h) ==
  /\ h \in pending
  /\ LET st == StartTimeOf(h)
         cur == CursorAfter(nextStartTime, duration(h.m))
         id == Len(nodes) + 1
         node == [t |-> st.t, at |-> clock, d |-> duration(h.m),
                  stopped |-> FALSE, ended |-> FALSE,
                  cur |-> cur, arr |-> h.arr, arrClock |-> h.arrClock,
                  arrCursor |-> h.arrCursor, arrEpoch |-> h.arrEpoch,
                  epoch |-> epoch, stamp |-> st.stamp, bumps |-> bumps]
     IN RestOfHandler(h.m, cur, SourcesAfterAdd(sources, id), Append(nodes, node))
  /\ pending' = pending \ {h}
  /\ lastOp' = "onmessage_resume"
  /\ UNCHANGED capVars
  /\ UNCHANGED pureVars
  /\ UNCHANGED <<clock, nArr, bumps>>

\* The 'ended' listener: this.sources.delete(source).  The variant leaves the
\* set as it is.
SourcesAfterEnded_keep(S, i) == S
SourcesAfterEnded(S, i) == S \ {i}

\* The 'ended' event of node i is dispatched once its playback is over; the
\* listener deletes the node from `sources`.
ended(i) ==
  /\ i \in DOMAIN nodes
  /\ ~nodes[i].ended
  /\ Finished(nodes[i])
  /\ nodes' = [nodes EXCEPT ![i].ended = TRUE]
  /\ sources' = SourcesAfterEnded(sources, i)
  /\ lastOp' = "ended"
  /\ UNCHANGED capVars
  /\ UNCHANGED pureVars
  /\ UNCHANGED <<clock, nextStartTime, pending, currentInputText,
                 currentOutputText, transcriptionLog, nArr, epoch,
                 cursorStamp, bumps>>

Next ==
  \/ Tick
  \/ \E m \in SchedMsgs : onmessage(m)
  \/ \E m \in SchedMsgs : onmessage_await(m)
  \/ \E h \in pending : onmessage_resume(h)
  \/ \E i \in DOMAIN nodes : ended(i)

Spec == Init /\ [][Next]_vars

\* The playback path fed with payloads that may fail to decode: an audio
\* chunk, a chunk on which decode() throws, and an interrupt.
DecodeMsgs ==
  {Msg("ok", 1, <<>>, <<>>, FALSE, FALSE),
   Msg("bad", 0, <<>>, <<>>, FALSE, FALSE),
   Msg("none", 0, <<>>, <<>>, FALSE, TRUE)}

NextDecode ==
  \/ Tick
  \/ \E m \in DecodeMsgs : onmessage(m)
  \/ \E m \in DecodeMsgs : onmessage_await(m)
  \/ \E h \in pending : onmessage_resume(h)
  \/ \E i \in DOMAIN nodes : ended(i)

SpecDecode == Init /\ [][NextDecode]_vars

\* ======================================================= capture and session
\* The values the language selector offers (the `languages` array); two of
\* them tell a change of language from no change.
Languages == {"None", "English"}

\* The scheduler and transcript variables the capture path never touches.
schedRest == <<clock, sources, nodes, pending, nArr, epoch, cursorStamp, bumps>>
textVars == <<currentInputText, currentOutputText, transcriptionLog>>

\* promise.then(cb) on the promise of session s, and the callbacks cb:
\*   [kind |-> "send", block |-> b]   session.sendRealtimeInput of block b
\*   [kind |-> "close"]               session.close()
\* A callback runs with the session once the promise has resolved.  Running it
\* on session table ss and call log `log`, while isRecording is `rec`:
RunCallback(cb, s, ss, log, rec) ==
  IF cb.kind = "send"
    THEN [sessions |-> ss,
          sent |-> Append(log, [block |-> cb.block, session |-> s, rec |-> rec])]
    ELSE [sessions |-> [ss EXCEPT ![s].st = IF @ = "open" THEN "closing" ELSE @],
          sent |-> log]

\* Callbacks registered on a pending promise wait in registration order; the
\* variant puts the newest first.
Enqueue_front(q, cb) == <<cb>> \o q
Enqueue(q, cb) == Append(q, cb)

\* sessionPromise.then(cb): queued while the session is connecting, run (as a
\* microtask, right after the calling handler) once it has resolved.
Then(s, cb, ss, log, rec) ==
  IF ss[s].st = "connecting"
    THEN [sessions |-> [ss EXCEPT ![s].q = Enqueue(@, cb)], sent |-> log]
    ELSE RunCallback(cb, s, ss, log, rec)

\* The queued callbacks of session s run in order when its promise resolves.
RECURSIVE Drain(_, _, _, _, _)
Drain(q, s, ss, log, rec) ==
  IF q = <<>> THEN [sessions |-> ss, sent |-> log]
  ELSE LET r == RunCallback(Head(q), s, ss, log, rec)
       IN Drain(Tail(q), s, r.sessions, r.sent, rec)

\* initSession: client.live.connect returns the promise of a new session.
initSession(ss) ==
  Append(ss, [st |-> "connecting", q |-> <<>>])

\* stopRecording writes isRecording = false; the variant toggles the flag.
IsRecordingAfterStop_toggle(rec) == ~rec
IsRecordingAfterStop(rec) == FALSE

\* stopRecording has no statement that writes nextStartTime; the variant
\* resets the cursor as part of the cleanup.
CursorAfterStop_reset(cur) == 0
CursorAfterStop(cur) == cur

\* stopRecording on request table chs: disconnect the script processor and the
\* source node the fields refer to, stop the tracks of this.mediaStream.  A
\* processor that is disconnected may still deliver one callback that was
\* already pending.
ChainsAfterStop(chs) ==
  [k \in DOMAIN chs |->
     [chs[k] EXCEPT
        !.proc = IF scriptProcessorNode = k /\ sourceNode # 0 /\ @ = "connected"
                 THEN "late" ELSE @,
        !.tracks = IF mediaStream = k /\ @ = "live" THEN "stopped" ELSE @]]

\* The body of stopRecording.  The early return of its first line is never
\* taken: inputAudioContext is always set.
StopRecordingBody(chs) ==
  /\ isRecording' = IsRecordingAfterStop(isRecording)
  /\ chains' = ChainsAfterStop(chs)
  /\ scriptProcessorNode' = 0
  /\ sourceNode' = 0
  /\ mediaStream' = 0
  /\ nextStartTime' = CursorAfterStop(nextStartTime)

\* `if (!this.sessionPromise)`: startRecording opens a session only when none
\* is held.  The variant opens one on every call.
NeedsSession_always(sp) == TRUE
NeedsSession(sp) == sp = 0

\* ----------------------------------------------------------------- actions
\* Click on the start button (enabled while not recording): startRecording
\* up to `await getUserMedia`.
startRecording ==
  /\ ~isRecording
  /\ Len(chains) < MaxStarts
  /\ IF NeedsSession(sessionPromise)
       THEN /\ sessions' = initSession(sessions)
            /\ sessionPromise' = Len(sessions) + 1
       ELSE UNCHANGED <<sessions, sessionPromise>>
  /\ status' = "Requesting microphone access..."
  /\ chains' = Append(chains, [gum |-> "awaiting", tracks |-> "none", proc |-> "none"])
  /\ lastOp' = "startRecording"
  /\ UNCHANGED <<isRecording, error, selectedLanguage, mediaStream, sourceNode,
                 scriptProcessorNode, sent, nBlocks, nextStartTime>>
  /\ UNCHANGED schedRest
  /\ UNCHANGED pureVars
  /\ UNCHANGED textVars

\* getUserMedia of request k resolves: the rest of startRecording's try block.
getUserMedia_resolve(k) ==
  /\ k \in DOMAIN chains
  /\ chains[k].gum = "awaiting"
  /\ mediaStream' = k
  /\ sourceNode' = k
  /\ scriptProcessorNode' = k
  /\ chains' = [chains EXCEPT ![k] = [gum |-> "granted", tracks |-> "live",
                                      proc |-> "connected"]]
  /\ isRecording' = TRUE
  /\ status' = "Recording..."
  /\ lastOp' = "getUserMedia_resolve"
  /\ UNCHANGED <<error, selectedLanguage, sessionPromise, sessions, sent,
                 nBlocks, nextStartTime>>
  /\ UNCHANGED schedRest
  /\ UNCHANGED pureVars
  /\ UNCHANGED textVars

\* What the catch block of startRecording does after reporting the error: it
\* calls stopRecording.  The variant only reports.
CatchBlock_reportOnly(chs) ==
  /\ chains' = chs
  /\ UNCHANGED <<isRecording, scriptProcessorNode, sourceNode, mediaStream,
                 nextStartTime>>
CatchBlock(chs) == StopRecordingBody(chs)

\* getUserMedia of request k rejects: the catch block of startRecording.
getUserMedia_reject(k) ==
  /\ k \in DOMAIN chains
  /\ chains[k].gum = "awaiting"
  /\ CatchBlock([chains EXCEPT ![k].gum = "rejected"])
  /\ status' = "Recording stopped. Click Start to begin again."
  /\ lastOp' = "getUserMedia_reject"
  /\ UNCHANGED <<error, selectedLanguage, sessionPromise, sessions, sent, nBlocks>>
  /\ UNCHANGED schedRest
  /\ UNCHANGED pureVars
  /\ UNCHANGED textVars

\* stopRecording, from the stop button.
stopRecording ==
  /\ StopRecordingBody(chains)
  /\ status' = "Recording stopped. Click Start to begin again."
  /\ lastOp' = "stopRecording"
  /\ UNCHANGED <<error, selectedLanguage, sessionPromise, sessions, sent, nBlocks>>
  /\ UNCHANGED schedRest
  /\ UNCHANGED pureVars
  /\ UNCHANGED textVars

\* The body of reset: stopRecording, then close the session once it resolves,
\* forget the promise and clear the transcript.
ResetBody ==
  /\ StopRecordingBody(chains)
  /\ IF sessionPromise # 0
       THEN LET r == Then(sessionPromise, [kind |-> "close"], sessions, sent, FALSE)
            IN sessions' = r.sessions /\ sent' = r.sent
       ELSE UNCHANGED <<sessions, sent>>
  /\ sessionPromise' = 0
  /\ transcriptionLog' = <<>>
  /\ currentInputText' = <<>>
  /\ currentOutputText' = <<>>
  /\ status' = "Session cleared. Select language and start recording."

\* Click on the reset button (enabled while not recording).
reset ==
  /\ ~isRecording
  /\ ResetBody
  /\ lastOp' = "reset"
  /\ UNCHANGED <<error, selectedLanguage, nBlocks>>
  /\ UNCHANGED schedRest
  /\ UNCHANGED pureVars

\* Change of the language selector (enabled while not recording).
handleLanguageChange(l) ==
  /\ ~isRecording
  /\ selectedLanguage' = l
  /\ ResetBody
  /\ lastOp' = "handleLanguageChange"
  /\ UNCHANGED <<error, nBlocks>>
  /\ UNCHANGED schedRest
  /\ UNCHANGED pureVars

\* `if (!this.isRecording) return;` at the head of onaudioprocess: the block
\* is taken only while recording.  The variant takes every block.
Accepts_always(rec) == TRUE
Accepts(rec) == rec

\* onaudioprocess of script processor p: a connected processor calls back for
\* every block, a disconnected one for the block that was pending.
onaudioprocess(p) ==
  /\ p \in DOMAIN chains
  /\ chains[p].proc \in {"connected", "late"}
  /\ nBlocks < MaxBlocks
  /\ nBlocks' = nBlocks + 1
  /\ chains' = [chains EXCEPT ![p].proc = IF @ = "late" THEN "dead" ELSE @]
  /\ IF Accepts(isRecording) /\ sessionPromise # 0
       THEN LET r == Then(sessionPromise, [kind |-> "send", block |-> nBlocks + 1],
                          sessions, sent, isRecording)
            IN sessions' = r.sessions /\ sent' = r.sent
       ELSE UNCHANGED <<sessions, sent>>
  /\ lastOp' = "onaudioprocess"
  /\ UNCHANGED <<isRecording, status, error, selectedLanguage, sessionPromise,
                 mediaStream, sourceNode, scriptProcessorNode, nextStartTime>>
  /\ UNCHANGED schedRest
  /\ UNCHANGED pureVars
  /\ UNCHANGED textVars

\* The connection of session s opens: the onopen callback, then the promise
\* resolves and the callbacks queued on it run.
onopen(s) ==
  /\ s \in DOMAIN sessions
  /\ sessions[s].st = "connecting"
  /\ status' = "Connection opened"
  /\ LET r == Drain(sessions[s].q, s,
                    [sessions EXCEPT ![s].st = "open", ![s].q = <<>>],
                    sent, isRecording)
     IN sessions' = r.sessions /\ sent' = r.sent
  /\ lastOp' = "onopen"
  /\ UNCHANGED <<isRecording, error, selectedLanguage, sessionPromise,
                 mediaStream, sourceNode, scriptProcessorNode, chains, nBlocks,
                 nextStartTime>>
  /\ UNCHANGED schedRest
  /\ UNCHANGED pureVars
  /\ UNCHANGED textVars

\* The connection of session s reports an error: the onerror callback.
onerror(s) ==
  /\ s \in DOMAIN sessions
  /\ sessions[s].st \in {"open", "closing"}
  /\ error' = "error"
  /\ lastOp' = "onerror"
  /\ UNCHANGED <<isRecording, status, selectedLanguage, sessionPromise,
                 mediaStream, sourceNode, scriptProcessorNode, sessions, chains,
                 sent, nBlocks, nextStartTime>>
  /\ UNCHANGED schedRest
  /\ UNCHANGED pureVars
  /\ UNCHANGED textVars

\* The connection of session s closes: the onclose callback.
onclose(s) ==
  /\ s \in DOMAIN sessions
  /\ sessions[s].st \in {"open", "closing"}
  /\ sessions' = [sessions EXCEPT ![s].st = "closed"]
  /\ status' = "Connection closed."
  /\ lastOp' = "onclose"
  /\ UNCHANGED <<isRecording, error, selectedLanguage, sessionPromise,
                 mediaStream, sourceNode, scriptProcessorNode, chains, sent,
                 nBlocks, nextStartTime>>
  /\ UNCHANGED schedRest
  /\ UNCHANGED pureVars
  /\ UNCHANGED textVars

\* The capture chain and the outbound path of the session: microphone
\* requests, capture callbacks and the sends queued on the session promise.
NextCapture ==
  \/ startRecording
  \/ \E k \in DOMAIN chains : getUserMedia_resolve(k)
  \/ \E k \in DOMAIN chains : getUserMedia_reject(k)
  \/ stopRecording
  \/ reset
  \/ \E p \in DOMAIN chains : onaudioprocess(p)
  \/ \E s \in DOMAIN sessions : onopen(s)

SpecCapture == Init /\ [][NextCapture]_vars

\* The whole component over one recording: a single startRecording call, the
\* session callbacks, and the messages of a connected session.
LifeEvents == 3    \* onaudioprocess callbacks and server messages, taken
                   \* together

\* Room for one more callback or message.
LifeRoom == nBlocks + nArr < LifeEvents

\* An audio chunk, an interrupt, and a transcript fragment that completes
\* the turn.
LifeMsgSet ==
  {Msg("ok", 1, <<>>, <<>>, FALSE, FALSE),
   Msg("none", 0, <<>>, <<>>, FALSE, TRUE),
   Msg("none", 0, << <<"a">> >>, <<>>, TRUE, FALSE)}

\* Messages are delivered by a session whose connection is up.
Connected == \E s \in DOMAIN sessions : sessions[s].st \in {"open", "closing"}

NextLife ==
  \/ chains = <<>> /\ startRecording
  \/ \E k \in DOMAIN chains : getUserMedia_resolve(k)
  \/ \E k \in DOMAIN chains : getUserMedia_reject(k)
  \/ stopRecording
  \/ reset
  \/ \E l \in Languages : handleLanguageChange(l)
  \/ \E p \in DOMAIN chains : LifeRoom /\ onaudioprocess(p)
  \/ \E s \in DOMAIN sessions : onopen(s)
  \/ \E s \in DOMAIN sessions : onerror(s)
  \/ \E s \in DOMAIN sessions : onclose(s)
  \/ \E m \in LifeMsgSet : Connected /\ LifeRoom /\ onmessage(m)
  \/ \E m \in LifeMsgSet : Connected /\ LifeRoom /\ onmessage_await(m)
  \/ \E h \in pending : onmessage_resume(h)
  \/ \E i \in DOMAIN nodes : ended(i)

SpecLife == Init /\ [][NextLife]_vars

\* ------------------------------------------------------------ inbound chunks
\* The playback path fed with the shapes an audio message can take: one
\* chunk, a chunk that decodes to an empty buffer, two inlineData parts in one
\* message, a message whose only inlineData part is not parts[0], and an
\* interrupt.
ChunkMsgs ==
  {Msg("ok", 1, <<>>, <<>>, FALSE, FALSE),
   Msg("ok", 0, <<>>, <<>>, FALSE, FALSE),
   [Msg("ok", 1, <<>>, <<>>, FALSE, FALSE) EXCEPT !.parts = 2],
   [Msg("none", 0, <<>>, <<>>, FALSE, FALSE) EXCEPT !.parts = 1],
   Msg("none", 0, <<>>, <<>>, FALSE, TRUE)}

NextChunks ==
  \/ Tick
  \/ \E m \in ChunkMsgs : onmessage(m)
  \/ \E m \in ChunkMsgs : onmessage_await(m)
  \/ \E h \in pending : onmessage_resume(h)
  \/ \E i \in DOMAIN nodes : ended(i)

SpecChunks == Init /\ [][NextChunks]_vars

\* --------------------------------------------------------------- transcripts
\* Messages of the transcript path: fragments with leading or trailing blanks,
\* a fragment of blanks only, a bare turnComplete, and messages that carry
\* audio together with a fragment.
TextMsgs ==
  {Msg("none", 0, << <<" ", "a">> >>, <<>>, FALSE, FALSE),
   Msg("none", 0, <<>>, << <<"b", " ">> >>, FALSE, FALSE),
   Msg("none", 0, << <<" ">> >>, <<>>, FALSE, FALSE),
   Msg("none", 0, <<>>, <<>>, TRUE, FALSE),
   Msg("ok", 1, <<>>, << <<"b">> >>, TRUE, FALSE),
   Msg("ok", 1, << <<"a">> >>, <<>>, FALSE, FALSE)}

NextText ==
  \/ \E m \in TextMsgs : onmessage(m)
  \/ \E m \in TextMsgs : onmessage_await(m)
  \/ \E h \in pending : onmessage_resume(h)

SpecText == Init /\ [][NextText]_vars

\* ------------------------------------------------------------------ draining
\* The playback path with a clock that keeps running for as long as a source
\* is playing or waiting to play, and a bounded number of messages.
DrainMsgs == 2     \* number of server messages delivered while draining

\* The output clock advances; it is followed as far as MaxClock and, beyond
\* that, for as long as some in-flight source has not played to its end.
ClockRuns ==
  /\ clock < MaxClock \/ \E i \in sources : ~Finished(nodes[i])
  /\ clock' = clock + 1
  /\ lastOp' = "tick"
  /\ UNCHANGED capVars
  /\ UNCHANGED pureVars
  /\ UNCHANGED <<nextStartTime, sources, nodes, pending, currentInputText,
                 currentOutputText, transcriptionLog, nArr, epoch,
                 cursorStamp, bumps>>

\* A short chunk, a long chunk and an interrupt.
DrainMsgSet ==
  {Msg("ok", 1, <<>>, <<>>, FALSE, FALSE),
   Msg("ok", 2, <<>>, <<>>, FALSE, FALSE),
   Msg("none", 0, <<>>, <<>>, FALSE, TRUE)}

NextDrain ==
  \/ ClockRuns
  \/ \E m \in DrainMsgSet : nArr < DrainMsgs /\ onmessage(m)
  \/ \E m \in DrainMsgSet : nArr < DrainMsgs /\ onmessage_await(m)
  \/ \E h \in pending : onmessage_resume(h)
  \/ \E i \in DOMAIN nodes : ended(i)

\* The clock of a running AudioContext advances, and the event loop
\* dispatches the 'ended' event of every node whose playback is over.
FairDrain ==
  /\ WF_vars(ClockRuns)
  /\ \A i \in 1..(DrainMsgs + 1) : WF_vars(ended(i))

SpecDrain == Init /\ [][NextDrain]_vars /\ FairDrain

\* What happens without the user: the browser settles the microphone
\* request, the connection opens and closes, messages and their decodes
\* arrive, 'ended' events are dispatched.
NextLifeAuto ==
  \/ \E k \in DOMAIN chains : getUserMedia_resolve(k)
  \/ \E k \in DOMAIN chains : getUserMedia_reject(k)
  \/ \E s \in DOMAIN sessions : onopen(s)
  \/ \E s \in DOMAIN sessions : onclose(s)
  \/ \E h \in pending : onmessage_resume(h)
  \/ \E i \in DOMAIN nodes : ended(i)

\* The component over one recording, with every step that needs no user
\* taken as long as it stays possible.
SpecLifeFair == Init /\ [][NextLife]_vars /\ WF_vars(NextLifeAuto)

\* ------------------------------------------------- audio and interrupt mixed
\* The playback path fed with messages that combine an audio payload with the
\* interrupted flag: a plain chunk, a chunk with the flag, a payload that fails
\* to decode with the flag, and a bare interrupt.  The stop button is part of
\* it, as a handler that runs between the scheduler's steps.
MixMsgs == 2       \* number of server messages delivered

MixMsgSet ==
  {Msg("ok", 1, <<>>, <<>>, FALSE, FALSE),
   Msg("ok", 2, <<>>, <<>>, FALSE, TRUE),
   Msg("bad", 0, <<>>, <<>>, FALSE, TRUE),
   Msg("none", 0, <<>>, <<>>, FALSE, TRUE)}

NextMixed ==
  \/ Tick
  \/ \E m \in MixMsgSet : nArr < MixMsgs /\ onmessage(m)
  \/ \E m \in MixMsgSet : nArr < MixMsgs /\ onmessage_await(m)
  \/ \E h \in pending : onmessage_resume(h)
  \/ \E i \in DOMAIN nodes : ended(i)
  \/ stopRecording

SpecMixed == Init /\ [][NextMixed]_vars

\* ----------------------------------------------------------------- sessions
\* The session bookkeeping: the buttons and the language selector in any
\* order, microphone requests settling at any time, capture callbacks, and
\* connections that open and close at any time.
NextSessions ==
  \/ startRecording
  \/ \E k \in DOMAIN chains : getUserMedia_resolve(k)
  \/ \E k \in DOMAIN chains : getUserMedia_reject(k)
  \/ stopRecording
  \/ reset
  \/ \E l \in Languages : handleLanguageChange(l)
  \/ \E p \in DOMAIN chains : onaudioprocess(p)
  \/ \E s \in DOMAIN sessions : onopen(s)
  \/ \E s \in DOMAIN sessions : onclose(s)

SpecSessions == Init /\ [][NextSessions]_vars

\* ================================================================= utilities
\* encode, decode, createBlob and decodeAudioData of utils.ts, as the
\* specification describes them: base64 transport text, and 16-bit
\* little-endian PCM scaled by 32768.
MaxBytes == 3      \* longest byte sequence handed to encode
MaxSamples == 2    \* longest sample sequence handed to createBlob
MaxWords == 4      \* longest 16-bit word sequence handed to decodeAudioData
MaxChannels == 2   \* largest numChannels handed to decodeAudioData

\* Everything of the component; the utility calls leave it alone.
componentVars == <<nextStartTime, schedRest, textVars, capVars>>

\* The base64 alphabet, by 6-bit value plus one.
Alphabet ==
  <<"A", "B", "C", "D", "E", "F", "G", "H", "I", "J", "K", "L", "M",
    "N", "O", "P", "Q", "R", "S", "T", "U", "V", "W", "X", "Y", "Z",
    "a", "b", "c", "d", "e", "f", "g", "h", "i", "j", "k", "l", "m",
    "n", "o", "p", "q", "r", "s", "t", "u", "v", "w", "x", "y", "z",
    "0", "1", "2", "3", "4", "5", "6", "7", "8", "9", "+", "/">>

Char(v) == Alphabet[v + 1]
Sextet(c) == (CHOOSE i \in DOMAIN Alphabet : Alphabet[i] = c) - 1

\* encode(bytes): three bytes become four characters; a last group of one or
\* two bytes is padded with "=".
RECURSIVE encode(_)
encode(b) ==
  IF Len(b) = 0 THEN <<>>
  ELSE IF Len(b) = 1
    THEN <<Char(b[1] \div 4), Char((b[1] % 4) * 16), "=", "=">>
  ELSE IF Len(b) = 2
    THEN LET n == b[1] * 256 + b[2]
         IN <<Char(n \div 1024), Char((n \div 16) % 64), Char((n % 16) * 4), "=">>
  ELSE LET n == b[1] * 65536 + b[2] * 256 + b[3]
       IN <<Char(n \div 262144), Char((n \div 4096) % 64),
            Char((n \div 64) % 64), Char(n % 64)>>
          \o encode(SubSeq(b, 4, Len(b)))

\* The bytes of one group of four characters.  The variant reads the padding
\* as zero bits and always yields three bytes.
DecodeQuad_noPad(q) ==
  LET v(c) == IF c = "=" THEN 0 ELSE Sextet(c)
      n == v(q[1]) * 262144 + v(q[2]) * 4096 + v(q[3]) * 64 + v(q[4])
  IN <<n \div 65536, (n \div 256) % 256, n % 256>>
DecodeQuad(q) ==
  IF q[3] = "="
    THEN <<Sextet(q[1]) * 4 + Sextet(q[2]) \div 16>>
  ELSE IF q[4] = "="
    THEN LET n == Sextet(q[1]) * 4096 + Sextet(q[2]) * 64 + Sextet(q[3])
         IN <<n \div 1024, (n \div 4) % 256>>
  ELSE LET n == Sextet(q[1]) * 262144 + Sextet(q[2]) * 4096
                  + Sextet(q[3]) * 64 + Sextet(q[4])
       IN <<n \div 65536, (n \div 256) % 256, n % 256>>

\* decode(base64) of well-formed text.
RECURSIVE decode(_)
decode(t) ==
  IF Len(t) < 4 THEN <<>>
  ELSE DecodeQuad(SubSeq(t, 1, 4)) \o decode(SubSeq(t, 5, Len(t)))

\* Storing a number in an Int16Array element keeps its low 16 bits, read as
\* a signed word.  The variant saturates.
ToInt16_clamp(x) == IF x > 32767 THEN 32767 ELSE IF x < -32768 THEN -32768 ELSE x
ToInt16(x) == ((x + 32768) % 65536) - 32768

\* A sample is held as a number of quarters: samples[i] / SampleDen.
SampleDen == 4

\* The two bytes of a signed word, low byte first.
WordBytes(w) == <<(w % 65536) % 256, (w % 65536) \div 256>>

RECURSIVE WordsToBytes(_)
WordsToBytes(ws) ==
  IF ws = <<>> THEN <<>> ELSE WordBytes(Head(ws)) \o WordsToBytes(Tail(ws))

\* new Int16Array(bytes.buffer): pairs of bytes read as signed words, low
\* byte first.
Int16Array(b) ==
  [i \in 1..(Len(b) \div 2) |->
     LET u == b[2 * i - 1] + 256 * b[2 * i]
     IN IF u >= 32768 THEN u - 65536 ELSE u]

\* createBlob(data): each sample times 32768 stored as a 16-bit word, the
\* words as bytes, the bytes as base64.
createBlob(data) ==
  [data |-> encode(WordsToBytes([i \in DOMAIN data |->
                                   ToInt16((data[i] * 32768) \div SampleDen)])),
   mimeType |-> "audio/pcm;rate=16000"]

\* A decoded sample: word / 32768, kept as the fraction.
Float(w) == [num |-> w, den |-> 32768]

\* Every n-th element of a sequence, from its first.
RECURSIVE EveryNth(_, _)
EveryNth(ws, n) ==
  IF ws = <<>> THEN <<>>
  ELSE <<Head(ws)>> \o EveryNth(SubSeq(ws, n + 1, Len(ws)), n)

\* The number of channels the words are dealt to: numChannels, and one when
\* numChannels is 0.  The variant deals to no channel then.
ChannelsOf_none(c) == c
ChannelsOf(c) == IF c = 0 THEN 1 ELSE c

\* decodeAudioData(data, ctx, sampleRate, numChannels): channel k gets every
\* numChannels-th word starting at word k, divided by 32768.
decodeAudioData(b, c) ==
  LET ws == Int16Array(b)
  IN [k \in 1..ChannelsOf(c) |->
        LET picked == EveryNth(SubSeq(ws, k, Len(ws)), ChannelsOf(c))
        IN [i \in DOMAIN picked |-> Float(picked[i])]]

\* ------------------------------------------------------------ utility calls
call_encode ==
  /\ returned.fn = "none"
  /\ encoded' = encode(bytes)
  /\ returned' = [fn |-> "encode", value |-> <<>>]
  /\ lastOp' = "encode"
  /\ UNCHANGED <<bytes, samples, numChannels, heap, analysers>>
  /\ UNCHANGED componentVars

call_createBlob ==
  /\ returned.fn = "none"
  /\ encoded' = createBlob(samples).data
  /\ returned' = [fn |-> "createBlob", value |-> <<>>]
  /\ lastOp' = "createBlob"
  /\ UNCHANGED <<bytes, samples, numChannels, heap, analysers>>
  /\ UNCHANGED componentVars

call_decode ==
  /\ returned.fn \in {"encode", "createBlob"}
  /\ returned' = [fn |-> "decode", value |-> decode(encoded)]
  /\ lastOp' = "decode"
  /\ UNCHANGED <<bytes, samples, numChannels, encoded, heap, analysers>>
  /\ UNCHANGED componentVars

call_decodeAudioData ==
  /\ returned.fn = "none"
  /\ returned' = [fn |-> "decodeAudioData",
                  value |-> decodeAudioData(bytes, numChannels)]
  /\ lastOp' = "decodeAudioData"
  /\ UNCHANGED <<bytes, samples, numChannels, encoded, heap, analysers>>
  /\ UNCHANGED componentVars

\* Sequences over S of length at most n.
SeqsUpTo(S, n) == UNION {[1..k -> S] : k \in 0..n}

\* encode then decode, on byte sequences with every padding length.
ByteVals == {0, 1, 72, 128, 255}

InitBase64 ==
  /\ InitComponent
  /\ bytes \in SeqsUpTo(ByteVals, MaxBytes)
  /\ samples = <<>>
  /\ numChannels = 1
  /\ encoded = <<>>
  /\ returned = [fn |-> "none", value |-> <<>>]
  /\ heap = <<>>
  /\ analysers = <<>>

NextBase64 == call_encode \/ call_decode

SpecBase64 == InitBase64 /\ [][NextBase64]_vars

\* createBlob then decode, on samples from -1.0 to 1.0 in steps of a quarter.
InitBlob ==
  /\ InitComponent
  /\ bytes = <<>>
  /\ samples \in SeqsUpTo((-SampleDen)..SampleDen, MaxSamples)
  /\ numChannels = 1
  /\ encoded = <<>>
  /\ returned = [fn |-> "none", value |-> <<>>]
  /\ heap = <<>>
  /\ analysers = <<>>

NextBlob == call_createBlob \/ call_decode

SpecBlob == InitBlob /\ [][NextBlob]_vars

\* decodeAudioData on word sequences and channel counts.
WordVals == {-32768, 16384, 32767}

InitAudioData ==
  /\ InitComponent
  /\ bytes \in {WordsToBytes(ws) : ws \in SeqsUpTo(WordVals, MaxWords)}
  /\ samples = <<>>
  /\ numChannels \in 0..MaxChannels
  /\ encoded = <<>>
  /\ returned = [fn |-> "none", value |-> <<>>]
  /\ heap = <<>>
  /\ analysers = <<>>

NextAudioData == call_decodeAudioData

SpecAudioData == InitAudioData /\ [][NextAudioData]_vars

\* ================================================================== analyser
\* The Analyser class of analyser.ts, as the specification describes it: one
\* Uint8Array of frequencyBinCount bytes allocated by the constructor and
\* overwritten in place by every update().
MaxSpectra == 9    \* the spectra getByteFrequencyData delivers are numbered
                   \* 0..MaxSpectra

fftSize == 32
frequencyBinCount == fftSize \div 2

\* One instance on the input node and one on the output node.
NumAnalysers == 2

\* new Uint8Array(n)
NewUint8Array(n) == [i \in 1..n |-> 0]

\* The byte magnitudes of spectrum c, one per bin.
Spectrum(c) == [i \in 1..frequencyBinCount |-> (c * 29 + (i - 1) * 3) % 256]

\* The `data` getter of analyser k: the object its dataArray field refers to.
data(k) == analysers[k].dataArray

\* update() of analyser k on heap h and instances a, the node delivering
\* spectrum sp: getByteFrequencyData fills the retained array.  The variant
\* allocates a new array for every update.
UpdateOf_realloc(h, a, k, sp) ==
  [heap |-> Append(h, sp), analysers |-> [a EXCEPT ![k].dataArray = Len(h) + 1]]
UpdateOf(h, a, k, sp) ==
  [heap |-> [h EXCEPT ![a[k].dataArray] = sp], analysers |-> a]

\* new Analyser(node): allocates the array of the new instance.
new_Analyser ==
  /\ Len(analysers) < NumAnalysers
  /\ heap' = Append(heap, NewUint8Array(frequencyBinCount))
  /\ analysers' = Append(analysers, [dataArray |-> Len(heap) + 1])
  /\ returned' = [fn |-> "new", value |-> Len(analysers) + 1]
  /\ lastOp' = "new_Analyser"
  /\ UNCHANGED <<bytes, samples, numChannels, encoded>>
  /\ UNCHANGED componentVars

\* analyser k .update()
update(k) ==
  /\ k \in DOMAIN analysers
  /\ \E c \in 0..MaxSpectra :
       LET r == UpdateOf(heap, analysers, k, Spectrum(c))
       IN heap' = r.heap /\ analysers' = r.analysers
  /\ returned' = [fn |-> "update", value |-> k]
  /\ lastOp' = "update"
  /\ UNCHANGED <<bytes, samples, numChannels, encoded>>
  /\ UNCHANGED componentVars

NextAnalyser ==
  \/ new_Analyser
  \/ \E k \in DOMAIN analysers : update(k)

SpecAnalyser == Init /\ [][NextAnalyser]_vars

\* ================================================================== claims
\* The nodes table is the record of every start() call, in call order; each
\* entry keeps what the chunk found when it arrived (arr, arrClock, arrCursor,
\* arrEpoch) and what held when start() was called (t, at, epoch, bumps).

\* Three chunks started one after another, in their order of arrival, with no
\* interrupt from the arrival of the first to the start of the third.
HandledInARow(i) ==
  /\ nodes[i].arr < nodes[i + 1].arr
  /\ nodes[i + 1].arr < nodes[i + 2].arr
  /\ nodes[i].arrEpoch = nodes[i + 2].epoch

Contiguous(i) ==
  /\ nodes[i + 1].t = nodes[i].t + nodes[i].d
  /\ nodes[i + 2].t = nodes[i + 1].t + nodes[i + 1].d
  /\ nodes[i].t >= nodes[i].arrClock

\* Each of the three was started at the clock value of its arrival and found
\* on arrival the cursor its predecessor had left: the three handlers ran one
\* after another without decode latency.
NoLatency(i) ==
  /\ \A k \in {i, i + 1, i + 2} : nodes[k].at = nodes[k].arrClock
  /\ nodes[i + 1].arrCursor = nodes[i].cur
  /\ nodes[i + 2].arrCursor = nodes[i + 1].cur

\* C1 as stated: three chunks handled one after another with no interrupt
\* between them are started at t0, t0+d1, t0+d1+d2 with t0 >= the clock at the
\* first arrival, whatever the clock is at the second and third arrival.
C1_ContiguityAnyArrival ==
  \A i \in 1..(Len(nodes) - 2) :
    (HandledInARow(i) /\ NoLatency(i)) => Contiguous(i)

\* C1 amended: the same, provided no audio arrival after the first start call
\* found the output clock ahead of nextStartTime (no max() step raised the
\* cursor between the first and the third start call).
C1_Contiguity ==
  \A i \in 1..(Len(nodes) - 2) :
    (HandledInARow(i) /\ nodes[i].bumps = nodes[i + 2].bumps) => Contiguous(i)

\* Three contiguous chunks, the later ones arriving at later clock values.
C1_Witness ==
  \E i \in 1..(Len(nodes) - 2) :
    /\ HandledInARow(i) /\ nodes[i].bumps = nodes[i + 2].bumps
    /\ nodes[i].arrClock < nodes[i + 1].arrClock
    /\ nodes[i + 1].arrClock < nodes[i + 2].arrClock
    /\ nodes[i + 2].t = nodes[i].t + nodes[i].d + nodes[i + 1].d

\* Playback windows [ActualStart, ActualEnd) of two nodes do not intersect.
Disjoint(a, b) ==
  \/ ActualEnd(a) <= ActualStart(b)
  \/ ActualEnd(b) <= ActualStart(a)
  \/ a.d = 0
  \/ b.d = 0

\* C2: no two sources in the in-flight set `sources` have overlapping actual
\* playback windows, for any arrival times and any decode latency.
C2_ZeroOverlap ==
  \A i \in sources : \A j \in sources : i # j => Disjoint(nodes[i], nodes[j])

\* C3: at every source.start(t) call, t >= outputAudioContext.currentTime at
\* that instant.
C3_NeverInPast ==
  \A i \in DOMAIN nodes : nodes[i].t >= nodes[i].at

\* C4 as stated: nextStartTime >= currentTime in every reachable state.
C4_CursorInvariant == nextStartTime >= clock

\* C4 amended: nextStartTime >= currentTime holds after construction and
\* immediately after the max() step of each audio arrival.
C4_CursorAfterMax ==
  lastOp \in {"init", "onmessage_await"} => nextStartTime >= clock

\* An audio chunk has just arrived after an interrupt had reset the cursor,
\* and the max() step has brought the cursor up to the clock.
C4_Witness ==
  /\ lastOp = "onmessage_await"
  /\ epoch > 0
  /\ clock > 0
  /\ nextStartTime = clock

\* C5: a chunk that arrives while nextStartTime is behind the output clock is
\* started at the current output-clock time (the clock at its arrival or the
\* clock at its start call).
C5_SelfHealing ==
  \A i \in DOMAIN nodes :
    nodes[i].arrCursor < nodes[i].arrClock =>
      (nodes[i].t = nodes[i].arrClock \/ nodes[i].t = nodes[i].at)

\* C6: a chunk that arrives while nextStartTime is ahead of the output clock,
\* with no interrupt before it is scheduled, is started at the nextStartTime
\* left by the previous chunk (the cursor it found on arrival, or the end of
\* the chunk started just before it), and the cursor afterwards is its start
\* time plus its duration.
C6_EarlyArrival ==
  \A i \in DOMAIN nodes :
    (nodes[i].arrCursor > nodes[i].arrClock /\ nodes[i].arrEpoch = nodes[i].epoch)
      => /\ \/ nodes[i].t = nodes[i].arrCursor
            \/ (i > 1 /\ nodes[i].t = nodes[i - 1].t + nodes[i - 1].d)
         /\ nodes[i].cur = nodes[i].t + nodes[i].d

\* C7: every step in which the interrupted branch runs calls stop() on every
\* source that was in `sources` and on the source the same handler has just
\* added, leaves `sources` empty and nextStartTime 0; run from a state an
\* interrupt has just left (empty set, cursor 0) it changes nothing.
C7_InterruptPostcondition ==
  [][epoch' = epoch + 1 =>
       /\ sources' = {}
       /\ nextStartTime' = 0
       /\ \A i \in sources : nodes'[i].stopped
       /\ \A i \in DOMAIN nodes' : i \notin DOMAIN nodes => nodes'[i].stopped
       /\ (sources = {} /\ nextStartTime = 0 /\ Len(nodes') = Len(nodes))
            => nodes' = nodes]_vars

\* Two interrupts have run, one of them on a source that would still be
\* playing now.
C7_Witness ==
  /\ epoch >= 2
  /\ lastOp = "onmessage"
  /\ sources = {}
  /\ nextStartTime = 0
  /\ \E i \in DOMAIN nodes :
       nodes[i].stopped /\ ActualStart(nodes[i]) <= clock /\ clock < ActualEnd(nodes[i])

\* C8: once the interrupted branch has run, no source started before it is
\* audible: each has been stopped or had played to its end.
C8_InterruptClearsAudibility ==
  \A i \in DOMAIN nodes : nodes[i].epoch < epoch => ~Audible(i)

\* A source that was cut short by an interrupt while scheduled or playing, and
\* another chunk started after that interrupt.
C8_Witness ==
  \E i \in DOMAIN nodes : \E j \in DOMAIN nodes :
    /\ nodes[i].epoch < epoch
    /\ nodes[i].stopped
    /\ clock < ActualEnd(nodes[i])
    /\ nodes[j].epoch = epoch
    /\ Audible(j)

\* C9: the value passed to source.start was written to nextStartTime at or
\* after the last interrupt processed before the call, never before it.
C9_NoStaleCursor ==
  \A i \in DOMAIN nodes : nodes[i].stamp = nodes[i].epoch

\* A chunk that arrived before an interrupt and was started after it, at a
\* value other than the one its handler computed on arrival.
C9_Witness ==
  \E i \in DOMAIN nodes :
    /\ nodes[i].arrEpoch < nodes[i].epoch
    /\ nodes[i].t # Max(nodes[i].arrCursor, nodes[i].arrClock)

\* C10: of two audio messages with no interrupt between them, the one
\* delivered first is started first and at a start time <= the other's.
C10_ArrivalOrder ==
  \A i \in DOMAIN nodes : \A j \in DOMAIN nodes :
    (/\ nodes[i].arr < nodes[j].arr
     /\ nodes[i].arrEpoch = nodes[j].epoch
     /\ nodes[j].arrEpoch = nodes[i].epoch)
      => (i < j /\ nodes[i].t <= nodes[j].t)

\* A message whose audio payload fails to decode is handled in this step.
BadArrival ==
  /\ lastOp' = "onmessage_await"
  /\ nArr' = nArr + 1
  /\ \A h \in pending' : h.arr # nArr'

\* Number of messages so far whose payload failed to decode (SpecDecode: every
\* other message is an interrupt, a suspended handler or a started node).
BadSoFar == nArr - epoch - Cardinality(pending) - Len(nodes)

\* C11: a message whose audio payload fails to decode leaves nextStartTime
\* and `sources` with the values they had before it was handled.
C11_DecodeFailureNoEffect ==
  [][BadArrival => (nextStartTime' = nextStartTime /\ sources' = sources)]_vars

\* C12: a decode failure does not abort the pipeline: the failing message
\* leaves the suspended handlers, the in-flight set, the session and the
\* capture chain as they were; after a failure a decoded chunk is still
\* started and added to `sources`, and an interrupt still stops and removes
\* every source.
C12_DecodeFailureIsolated ==
  [][/\ BadArrival => UNCHANGED <<pending, sources, nodes, capVars>>
     /\ (BadSoFar > 0 /\ Len(nodes') = Len(nodes) + 1)
          => (Len(nodes') \in sources' /\ pending' # pending)
     /\ (BadSoFar > 0 /\ epoch' = epoch + 1)
          => (sources' = {} /\ \A i \in sources : nodes'[i].stopped)]_vars

\* The first message failed to decode, the second was decoded and started,
\* and the third, an interrupt, stopped it.
C12_Witness ==
  /\ nArr = 3
  /\ BadSoFar = 1
  /\ epoch = 1
  /\ Len(nodes) = 1
  /\ nodes[1].arr = 2
  /\ nodes[1].stopped
  /\ sources = {}

\* C13: after stopRecording, reset and handleLanguageChange the in-flight set
\* is empty, no source of the ended session is audible and nextStartTime has
\* been reset (to 0 or to the output clock).
C13_ResetAtSessionBoundary ==
  lastOp \in {"stopRecording", "reset", "handleLanguageChange"}
    => /\ sources = {}
       /\ \A i \in DOMAIN nodes : ~Audible(i)
       /\ nextStartTime \in {0, clock}

\* C14: an onaudioprocess callback that fires while isRecording is false
\* sends nothing and queues nothing.
C14_LateBlocksDiscarded ==
  [][(nBlocks' = nBlocks + 1 /\ ~isRecording)
       => (sent' = sent /\ sessions' = sessions)]_vars

\* The first block was sent; the second, pending when stopRecording
\* disconnected the processor, has been delivered and dropped.
C14_Witness ==
  /\ lastOp = "onaudioprocess"
  /\ ~isRecording
  /\ nBlocks = 2
  /\ Len(sent) = 1
  /\ \E p \in DOMAIN chains : chains[p].proc = "dead"
  /\ \A s \in DOMAIN sessions : sessions[s].q = <<>>

\* C15: sendRealtimeInput is never invoked while isRecording is false.
C15_NoSendWhileStopped ==
  \A i \in DOMAIN sent : sent[i].rec

\* C16: blocks taken on the same session are sent in the order of their
\* onaudioprocess callbacks.
C16_OutboundOrder ==
  \A i \in DOMAIN sent : \A j \in DOMAIN sent :
    (i < j /\ sent[i].session = sent[j].session)
      => sent[i].block < sent[j].block

\* Two blocks were queued on the promise of the only session and both were
\* sent when it resolved.
C16_Witness ==
  /\ lastOp = "onopen"
  /\ Len(sessions) = 1
  /\ Len(sent) = 2
  /\ sent[1].session = 1
  /\ sent[2].session = 1
  /\ sent[1].block # sent[2].block

\* Capture is stopped: not recording and no stream, source node or script
\* processor held.
CaptureStopped ==
  ~isRecording /\ mediaStream = 0 /\ sourceNode = 0 /\ scriptProcessorNode = 0

\* C17: stopRecording called when capture is already stopped changes nothing
\* but the status line, and called right after a stopRecording changes nothing
\* at all.
C17_StopIdempotent ==
  [][/\ (lastOp' = "stopRecording" /\ CaptureStopped)
          => UNCHANGED <<isRecording, error, selectedLanguage, sessionPromise,
                         mediaStream, sourceNode, scriptProcessorNode,
                         sessions, chains, sent, nBlocks, nextStartTime,
                         schedRest, textVars>>
     /\ (lastOp' = "stopRecording" /\ lastOp = "stopRecording")
          => UNCHANGED vars]_vars

\* stopRecording has run although every microphone request had failed, so
\* capture was already stopped when it was called.
C17_Witness ==
  /\ lastOp = "stopRecording"
  /\ chains # <<>>
  /\ \A k \in DOMAIN chains : chains[k].gum = "rejected"

\* C18: when stopRecording returns, every stream acquired so far has its
\* tracks stopped and no script processor is still connected.
C18_StopReleasesChain ==
  lastOp = "stopRecording"
    => \A k \in DOMAIN chains :
         chains[k].tracks # "live" /\ chains[k].proc # "connected"

\* C19: when a startRecording whose getUserMedia rejected completes, capture
\* is stopped with nothing retained, and startRecording can be called again.
C19_FailedStartRecoverable ==
  lastOp = "getUserMedia_reject"
    => /\ CaptureStopped
       /\ Len(chains) < MaxStarts => ENABLED startRecording

\* A request was rejected and a later one was granted and is recording.
C19_Witness ==
  \E k \in DOMAIN chains : \E j \in DOMAIN chains :
    /\ k < j
    /\ chains[k].gum = "rejected"
    /\ chains[j].gum = "granted"
    /\ isRecording
    /\ mediaStream = j

C21_RemovalOnlyByEndOrFlush ==
  [][\A i \in sources \ sources' :
       \/ /\ lastOp' = "ended"
          /\ ~nodes[i].ended /\ nodes'[i].ended
          /\ ~Audible(i)
       \/ /\ lastOp' \in {"onmessage", "onmessage_resume"}
          /\ epoch' = epoch + 1
          /\ nodes'[i].stopped]_vars

\* One source has left the set by playing to its end, another by being
\* stopped by an interrupt.
C21_Witness ==
  \E i \in DOMAIN nodes : \E j \in DOMAIN nodes :
    /\ nodes[i].ended /\ ~nodes[i].stopped /\ i \notin sources
    /\ nodes[j].stopped /\ j \notin sources

\* C22: with the clock running and no further audio arriving, every source
\* added to `sources` is removed again, so `sources` eventually becomes empty
\* and stays empty.
C22_DrainingReturnsToIdle == <>[](sources = {})

\* Two chunks played to their end past MaxClock and were removed by their
\* 'ended' callbacks.
C22_Witness ==
  /\ sources = {}
  /\ pending = {}
  /\ Len(nodes) = 2
  /\ clock > MaxClock
  /\ \A i \in DOMAIN nodes : nodes[i].ended /\ ~nodes[i].stopped

\* The nodes created by the step.
NewNodes == DOMAIN nodes' \ DOMAIN nodes

\* C23: for every inlineData audio part of a received message that decodes,
\* exactly one buffer source is created, started and added to `sources`: when
\* the handler of a message completes, it has created as many sources as the
\* message has audio parts, each one for that message.
C23_EveryPartConsumedOnce ==
  [][\A h \in pending \ pending' :
       lastOp' = "onmessage_resume"
         => /\ Cardinality(NewNodes) = h.m.parts
            /\ \A i \in NewNodes : nodes'[i].arr = h.arr /\ i \in sources']_vars

\* C26: a chunk whose decoded buffer has duration 0 is scheduled like any
\* other (a source is created, started at the cursor and added to `sources`)
\* and leaves nextStartTime at the start time it was given.
C26_ZeroLengthChunk ==
  [][\A h \in pending \ pending' :
       (lastOp' = "onmessage_resume" /\ duration(h.m) = 0)
         => /\ NewNodes = {Len(nodes) + 1}
            /\ \A i \in NewNodes :
                 /\ nodes'[i].t = nextStartTime
                 /\ nodes'[i].d = 0
                 /\ i \in sources'
                 /\ nextStartTime' = nodes'[i].t]_vars

\* An empty buffer was started at a cursor left by an earlier chunk, is in
\* flight, and the cursor after it is its start time.
C26_Witness ==
  \E i \in DOMAIN nodes :
    /\ nodes[i].d = 0
    /\ nodes[i].t > 0
    /\ nodes[i].cur = nodes[i].t
    /\ i \in sources

\* The log after a flush of accumulators X (input) and Y (output): the old
\* entries, then 'You' and 'Orb' entries for the non-empty trimmed texts.
FlushedLog(log, X, Y) ==
  log \o (IF trim(X) # <<>> THEN <<[speaker |-> "You", text |-> trim(X)]>>
          ELSE <<>>)
      \o (IF trim(Y) # <<>> THEN <<[speaker |-> "Orb", text |-> trim(Y)]>>
          ELSE <<>>)

\* The fragments a message can bring, and none.
Fragments ==
  {<<>>} \cup {m.inT[1] : m \in {x \in TextMsgs : x.inT # <<>>}}
         \cup {m.outT[1] : m \in {x \in TextMsgs : x.outT # <<>>}}

\* The accumulators only grew and the log is as it was.
OnlyAccumulated ==
  /\ transcriptionLog' = transcriptionLog
  /\ \E f \in Fragments : currentInputText' = currentInputText \o f
  /\ \E f \in Fragments : currentOutputText' = currentOutputText \o f

\* The accumulators, with what the message added, were flushed to the log.
FlushedOf(X, Y) ==
  /\ transcriptionLog' = FlushedLog(transcriptionLog, X, Y)
  /\ currentInputText' = <<>>
  /\ currentOutputText' = <<>>

\* C24: a message with turnComplete appends to transcriptionLog, after the
\* existing entries and in the order 'You' then 'Orb', one entry for each
\* accumulator whose trimmed text is non-empty, and empties both accumulators;
\* a message without turnComplete only accumulates its fragments.
C24_TurnCompleteFlushes ==
  [][/\ \A h \in pending \ pending' :
          lastOp' = "onmessage_resume" =>
            LET X == currentInputText \o
                       (IF h.m.inT # <<>> THEN h.m.inT[1] ELSE <<>>)
                Y == currentOutputText \o
                       (IF h.m.outT # <<>> THEN h.m.outT[1] ELSE <<>>)
            IN IF h.m.turnComplete
                 THEN FlushedOf(X, Y)
                 ELSE /\ transcriptionLog' = transcriptionLog
                      /\ currentInputText' = X
                      /\ currentOutputText' = Y
     /\ (lastOp' = "onmessage" /\ nArr' = nArr + 1) =>
          \/ OnlyAccumulated
          \/ \E f \in Fragments : \E g \in Fragments :
               FlushedOf(currentInputText \o f, currentOutputText \o g)
     /\ (lastOp' = "onmessage_await" /\ nArr' = nArr + 1) =>
          UNCHANGED <<transcriptionLog, currentInputText, currentOutputText>>]_vars

\* The fragments " a" and "b " were flushed as 'You': "a" and 'Orb': "b".
C24_Witness ==
  /\ transcriptionLog = <<[speaker |-> "You", text |-> <<"a">>],
                          [speaker |-> "Orb", text |-> <<"b">>]>>
  /\ currentInputText = <<>>
  /\ currentOutputText = <<>>
  /\ lastOp = "onmessage"

\* C25: whenever onerror fires while the component is recording, the
\* component eventually is back in Idle: not recording, no capture node and
\* no media stream held.
C25_ErrorLeadsToCleanup ==
  (lastOp = "onerror" /\ isRecording) ~> CaptureStopped

\* C27: decode(encode(b)) equals b element for element for every byte
\* sequence b, and encode of the empty sequence is the empty text.
C27_Base64RoundTrip ==
  /\ returned.fn = "decode" => returned.value = bytes
  /\ (returned.fn = "encode" /\ bytes = <<>>) => encoded = <<>>

\* Two bytes went through a padded group and came back.
C27_Witness ==
  /\ returned.fn = "decode"
  /\ bytes = <<72, 255>>
  /\ Len(encoded) = 4
  /\ encoded[4] = "="

\* The scenario of C28 has run: createBlob on [1.0, -1.0], then decode.
FullScaleDecoded ==
  samples = <<SampleDen, -SampleDen>> /\ returned.fn = "decode"

C30_SnapshotStable ==
  [][\A k \in DOMAIN analysers :
       /\ analysers'[k].dataArray = data(k)
       /\ Len(heap'[analysers'[k].dataArray]) = 16
       /\ \A i \in DOMAIN heap'[analysers'[k].dataArray] :
            heap'[analysers'[k].dataArray][i] \in 0..255
       /\ (returned'.fn = "update" /\ returned'.value # k)
            => heap'[data(k)] = heap[data(k)]]_vars

\* Both analysers have been updated and hold different spectra, each in the
\* array its constructor allocated.
C30_Witness ==
  /\ Len(analysers) = 2
  /\ data(1) = 1
  /\ data(2) = 2
  /\ heap[1] # NewUint8Array(frequencyBinCount)
  /\ heap[2] # NewUint8Array(frequencyBinCount)
  /\ heap[1] # heap[2]

\* C31: every start() call of a scheduled chunk is given the value
\* nextStartTime has at the call, and the assignment that follows leaves
\* nextStartTime at that start time plus the buffer's duration; when the same
\* message has no interrupted flag, that is the cursor the handler leaves.
C31_CursorBookkeeping ==
  [][\A h \in pending \ pending' :
       lastOp' = "onmessage_resume" =>
         \E i \in NewNodes :
           /\ nodes'[i].arr = h.arr
           /\ nodes'[i].t = nextStartTime
           /\ nodes'[i].cur = nodes'[i].t + duration(h.m)
           /\ ~h.m.interrupted => nextStartTime' = nodes'[i].cur]_vars

\* A chunk whose decode ended after the clock had passed the cursor was
\* started at the cursor, and the cursor is now its start time plus 1.
C31_Witness ==
  /\ lastOp = "onmessage_resume"
  /\ \E i \in DOMAIN nodes :
       /\ nodes[i].at > nodes[i].arrClock
       /\ nodes[i].t < nodes[i].at
       /\ nodes[i].d = 1
       /\ nextStartTime = nodes[i].t + 1

\* C32: every source that was started and has neither ended nor been
\* stopped is a member of `sources`, and every member of `sources` is a
\* source that was started.
C32_AudibleTracked ==
  /\ \A i \in DOMAIN nodes :
       (~nodes[i].stopped /\ ~nodes[i].ended) => i \in sources
  /\ sources \subseteq DOMAIN nodes

\* One source was stopped by an interrupt and is out of the set; a later one
\* is playing and is in it.
C32_Witness ==
  \E i \in DOMAIN nodes : \E j \in DOMAIN nodes :
    /\ nodes[i].stopped /\ i \notin sources
    /\ Audible(j) /\ ActualStart(nodes[j]) <= clock /\ j \in sources

\* C33: a chunk delivered before an interrupt was handled is not started
\* after that interrupt and is not audible after it.
C33_NoPreInterruptAudio ==
  \A i \in DOMAIN nodes :
    nodes[i].arrEpoch < epoch
      => (nodes[i].epoch = nodes[i].arrEpoch /\ ~Audible(i))

\* The handler of a message that has the interrupted flag set comes to its
\* end in this step: a message without audio, the continuation of a message
\* with audio, or a message whose payload fails to decode (in MixMsgSet every
\* message without audio and every undecodable one has the flag).
InterruptedMessageDone ==
  \/ /\ lastOp' = "onmessage" /\ nArr' = nArr + 1
     /\ \A m \in MixMsgSet : m.audio = "none" => m.interrupted
  \/ /\ lastOp' = "onmessage_resume"
     /\ \E h \in pending \ pending' : h.m.interrupted
  \/ /\ BadArrival
     /\ \A m \in MixMsgSet : m.audio = "bad" => m.interrupted

\* C35: when the handler of a message with the interrupted flag finishes,
\* every source that was in `sources` has been stopped, `sources` is empty and
\* nextStartTime is 0, also when the message's audio payload fails to decode.
C35_InterruptAlwaysHonoured ==
  [][InterruptedMessageDone
       => /\ sources' = {}
          /\ nextStartTime' = 0
          /\ \A i \in sources : nodes'[i].stopped]_vars

\* C37: the continuation of a message that carries decodable audio and the
\* interrupted flag starts the message's source at the cursor and then runs
\* the interrupted branch: the new source and every source that was in flight
\* are stopped, `sources` is empty and nextStartTime is 0.
C37_AudioThenInterrupt ==
  [][\A h \in pending \ pending' :
       (lastOp' = "onmessage_resume" /\ h.m.interrupted)
         => /\ sources' = {}
            /\ nextStartTime' = 0
            /\ \A i \in sources : nodes'[i].stopped
            /\ \E i \in NewNodes :
                 /\ nodes'[i].arr = h.arr
                 /\ nodes'[i].t = nextStartTime
                 /\ nodes'[i].stopped]_vars

\* A chunk was in flight when the continuation of a message with audio and
\* the flag ran: both sources are stopped and the scheduler is reset.
C37_Witness ==
  /\ lastOp = "onmessage_resume"
  /\ Len(nodes) = 2
  /\ nodes[1].arr < nodes[2].arr
  /\ nodes[2].d = 2
  /\ nodes[2].epoch = epoch - 1
  /\ nodes[1].stopped /\ nodes[2].stopped
  /\ sources = {}
  /\ nextStartTime = 0

\* C39: every step in which the interrupted branch does not run leaves
\* nextStartTime at least as large as it was.
C39_CursorMonotone ==
  [][epoch' = epoch => nextStartTime' >= nextStartTime]_vars

\* With no interrupt so far, the max() step raised the cursor to the clock,
\* the chunk moved it on ahead of the clock, and the stop button left it there.
C39_Witness ==
  /\ epoch = 0
  /\ bumps > 0
  /\ nextStartTime > clock
  /\ lastOp = "stopRecording"

\* A handler suspended at the decode await whose message brought a
\* transcript fragment: the fragment is not in the accumulators yet.
HoldsFragment(h) == h.m.inT # <<>> \/ h.m.outT # <<>>

\* C36: when the handler of a turnComplete message finalizes the log entry,
\* every fragment of a message delivered before it is in the accumulators it
\* flushes: no handler of an earlier message is still suspended at the decode
\* await with a fragment it has not appended.
C36_FragmentsStayInTurn ==
  [][/\ (\E m \in TextMsgs : m.turnComplete /\ onmessage(m))
          => \A g \in pending : ~HoldsFragment(g)
     /\ \A h \in pending \ pending' :
          (lastOp' = "onmessage_resume" /\ h.m.turnComplete)
            => \A g \in pending' : g.arr < h.arr => ~HoldsFragment(g)]_vars

\* C34: whenever isRecording is true, sessionPromise is non-null.
C34_RecordingImpliesSession == isRecording => sessionPromise # 0

\* session.close() has been requested of session s: it ran, or it waits on
\* the session's promise.
AskedToClose(s) ==
  \/ sessions[s].st \in {"closing", "closed"}
  \/ \E i \in DOMAIN sessions[s].q : sessions[s].q[i].kind = "close"

\* C38: at most one session has been created and not asked to close, and it
\* is the one sessionPromise refers to; so at most one session is connected
\* and not asked to close.
C38_SingleOpenSession ==
  /\ \A s \in DOMAIN sessions : ~AskedToClose(s) => s = sessionPromise
  /\ Cardinality({s \in DOMAIN sessions : sessions[s].st = "open"}) <= 1

\* A reset asked the first session to close while it was still connecting,
\* a second session was created, and both connections have opened: the first
\* was closed at once, the second is the open one.
C38_Witness ==
  /\ Len(sessions) = 2
  /\ sessions[1].st = "closing"
  /\ sessions[2].st = "open"
  /\ sessionPromise = 2
  /\ lastOp = "onopen"

====
